---- MODULE Spec2Model ----
(***************************************************************************)
(* HR agent backend (backend/app.py, backend/src/hr_agent): the /query     *)
(* endpoint, the LangGraph graph built by HR_Agent_GraphBuilder, the write *)
(* gate check_if_write_operation, the approval nodes hitl_approval and     *)
(* handle_hitl_approval, the tool executor and the audit sink.             *)
(*                                                                         *)
(* The language model is an opaque collaborator: every model call is a     *)
(* nondeterministic choice from a small set of responses.                  *)
(***************************************************************************)
EXTENDS Integers, Sequences, FiniteSets, TLC

\* ---------------------------------------------------------------- bounds
MaxReq == 3       \* requests served in one behaviour
MaxNew == 1       \* of these, requests that start a new run
MaxRunning == 1   \* request handlers in progress at the same time
MaxResumed == 1   \* resumed graph runs in one behaviour
MaxTurns == 1     \* tool-requesting model turns within one graph run
MaxCalls == 2     \* tool requests in one model turn

Req == 1..MaxReq
Threads == {"E1", "E2"}

None == "None"

\* ------------------------------------------------------------- SQL text
\* A statement is a sequence of lexical pieces; whitespace is explicit.
SqlSelect == <<"SELECT", " ", "t">>
SqlInsert == <<"INSERT", " ", "t">>
SqlEmpty == <<>>
SqlPool == {SqlSelect, SqlInsert}

Whitespace == {" ", "\n", "\t"}

\* str.lower() on one lexical piece
LowerTok(tok) ==
  CASE tok = "SELECT" -> "select"
    [] tok = "INSERT" -> "insert"
    [] tok = "UPDATE" -> "update"
    [] tok = "DELETE" -> "delete"
    [] tok = "DROP" -> "drop"
    [] tok = "CALL" -> "call"
    [] tok = "WITH" -> "with"
    [] tok = "AS" -> "as"
    [] OTHER -> tok

RECURSIVE LStrip(_)
LStrip(s) == IF s # <<>> /\ Head(s) \in Whitespace THEN LStrip(Tail(s)) ELSE s

RECURSIVE RStrip(_)
RStrip(s) ==
  IF s # <<>> /\ s[Len(s)] \in Whitespace THEN RStrip(SubSeq(s, 1, Len(s) - 1)) ELSE s

\* (sql or "").strip().lower()
Normalize(sql) ==
  LET t == RStrip(LStrip(sql)) IN [i \in 1..Len(t) |-> LowerTok(t[i])]

WRITE_PREFIXES ==
  {"insert", "update", "delete", "upsert", "merge",
   "alter", "drop", "create", "truncate", "grant", "revoke"}

\* " select " in f" {s} "
ContainsSelectWord(s) ==
  LET p == <<" ">> \o s \o <<" ">> IN
  \E i \in 1..(Len(p) - 2) : p[i] = " " /\ p[i + 1] = "select" /\ p[i + 2] = " "

is_write_sql(sql) ==
  LET s == Normalize(sql) IN
  IF s # <<>> /\ Head(s) = "with"
  THEN ~ContainsSelectWord(s) /\ ~(s[Len(s)] = "select")
  ELSE s # <<>> /\ Head(s) \in WRITE_PREFIXES

\* Statements handed to is_write_sql on its own: an optional read-only
\* WITH prefix, a statement body, and surrounding whitespace.
MaxPad == 1

Pads == UNION {[1..k -> Whitespace] : k \in 0..MaxPad}

CtePrefixes ==
  {<<"WITH", " ", "c", " ", "AS", " ", "(", "SELECT", " ", "1", ")", " ">>,
   <<"WITH", " ", "c", " ", "AS", " ", "(", " ", "SELECT", " ", "1", " ", ")", " ">>,
   <<"WITH", " ", "c", " ", "AS", " ", "(", "SELECT", " ", "1", ")", "\n">>}

Verbs == {"SELECT", "INSERT", "UPDATE", "DELETE", "DROP"}

Bodies ==
  {<<v, " ", "t">> : v \in Verbs}
    \cup {<<"INSERT", " ", "t", " ", "SELECT", " ", "c">>}

SqlInputs ==
  {lead \o pre \o body \o trail :
     lead \in Pads, pre \in CtePrefixes \cup {<<>>}, body \in Bodies, trail \in Pads}
    \cup Pads

\* Statements outside the classifier's lists: empty, comment-prefixed,
\* several statements in one string, an unlisted leading keyword.
UnrecognisedStatements ==
  {SqlEmpty,
   <<"--", " ", "x", "\n", "DROP", " ", "t">>,
   <<"SELECT", " ", "t", ";", " ", "DROP", " ", "t">>,
   <<"CALL", " ", "t">>}

\* ------------------------------------------------------------ tool calls
NoId == <<>>

\* The tool requests the model can write: tool name and argument map.
CallPool ==
  {[name |-> "execute_sql", args |-> [query |-> q]] : q \in SqlPool}
    \cup {[name |-> "list_tables", args |-> [schemas |-> "public"]]}

\* args.get("query", "")
ArgQuery(args) == IF "query" \in DOMAIN args THEN args.query ELSE SqlEmpty

\* The shapes of one model turn: its tool requests, in order.
TurnShapesOver(pool) ==
  {<<>>} \cup UNION {[1..n -> pool] : n \in 1..MaxCalls}

TurnShapes == TurnShapesOver(CallPool)

\* Call ids are issued by the model provider and never repeat:
\* request r, model turn k, position i.
MkCalls(r, k, shape) ==
  [i \in 1..Len(shape) |->
     [id |-> <<r, k, i>>, name |-> shape[i].name, args |-> shape[i].args]]

\* -------------------------------------------------------------- messages
REJECTION == "Query was rejected by the user. No changes were made."

HumanMessage ==
  [type |-> "human", calls |-> <<>>, tool_call_id |-> NoId, content |-> "query"]

AIMessage(calls) ==
  [type |-> "ai", calls |-> calls, tool_call_id |-> NoId,
   content |-> IF calls = <<>> THEN "answer" ELSE ""]

ToolMessage(id, content) ==
  [type |-> "tool", calls |-> <<>>, tool_call_id |-> id, content |-> content]

\* "rejected by the user" in content.lower() or "no changes were made" in content.lower()
SignalsRejection(content) == content = REJECTION

\* extract_tool_calls(msg)
extract_tool_calls(msg) == msg.calls

\* extract_tool_call(msg): the FIRST tool call, or (None, None, {})
extract_tool_call(msg) ==
  IF msg.calls # <<>>
  THEN [id |-> msg.calls[1].id, name |-> msg.calls[1].name, args |-> msg.calls[1].args]
  ELSE [id |-> NoId, name |-> None, args |-> <<>>]

\* ---------------------------------------------------------- resume data
Missing == "Missing"

\* The "resume" value of a request body: an object with a user_feedback
\* text, an object with only the approved flag, or (voice endpoint) a raw
\* string that did not parse as JSON.
ResumePool ==
  {[shape |-> "dict", user_feedback |-> f, approved |-> Missing] :
      f \in {"approved", "Approved", "rejected", "maybe"}}
    \cup {[shape |-> "dict", user_feedback |-> Missing, approved |-> a] :
      a \in {"true", "false"}}
    \cup {[shape |-> "str", user_feedback |-> Missing, approved |-> Missing]}

NoResume == [shape |-> None, user_feedback |-> Missing, approved |-> Missing]

\* str.lower() on a feedback text
LowerText(f) == IF f = "Approved" THEN "approved" ELSE f

Explanations == {"expl_a", "expl_b"}

\* ------------------------------------------------------ MCP tools module
\* src/tools.py keeps one client, one session and the tools loaded from it
\* in module globals. Coroutines of one event loop interleave at awaits only.
MaxMcpCalls == 4

McpCallers == {"A", "B"}

\* None for the module's references; sessions are numbered from 1.
NoRef == 0

NoTask == [op |-> None, pc |-> "idle", result |-> NoRef, epoch |-> 0]

McpIdle ==
  [client |-> NoRef, session_cm |-> NoRef, session |-> NoRef,
   tools |-> NoRef, tool_node |-> NoRef,
   lock |-> None,          \* holder of _init_lock
   open |-> {},            \* sessions entered and not exited
   entered |-> 0,          \* sessions entered so far
   since_shutdown |-> 0,   \* sessions entered since the last shutdown_mcp
   shutdowns |-> 0,        \* shutdown_mcp calls completed
   failed |-> 0,           \* init_mcp calls that raised
   calls |-> 0,
   shut |-> FALSE,         \* shutdown_mcp completed and no init_mcp ran since
   task |-> [c \in McpCallers |-> NoTask]]

\* ------------------------------------------------------- document upload
MaxUploads == 3

\* n: uploads started; effects: the calls made to the file reader, the
\* employees table, the storage bucket, the summariser and documents_1;
\* status: the status_code of each upload that returned.
DocIdle == [n |-> 0, pc |-> "idle", effects |-> <<>>, status |-> <<>>]

\* ------------------------------------------------- audit context variables
\* request_id_var, thread_id_var and actor_var are ContextVars: every
\* request handler runs in a task of its own whose context is a copy, so a
\* set() in one task is seen by get() in that task only.
MaxTasks == 2
MaxEvents == 2

CtxTasks == 1..MaxTasks

NoContext == [request_id |-> 0, thread_id |-> None, actor |-> None]

\* var: each task's context; last: the value set most recently by any task;
\* employee: the employee_id of the request a task serves.
CtxIdle ==
  [var |-> [k \in CtxTasks |-> NoContext],
   last |-> NoContext,
   pc |-> [k \in CtxTasks |-> "idle"],
   employee |-> [k \in CtxTasks |-> None],
   emitted |-> [k \in CtxTasks |-> 0],
   log |-> <<>>]

\* ----------------------------------------------------------------- state
VARIABLES
  req,           \* per request: the handler's and the graph run's state
  audit,         \* the append-only audit sink (audit_event)
  executed,      \* calls received by the tool executor (MCP session)
  lastResponse,  \* per thread: what the caller last received
  shown,         \* per thread: the approval descriptor last returned
  checkpointer,  \* the checkpointer the graph was compiled with
  checkpoint,    \* per thread: the state the checkpointer holds
  llm,           \* how the language model behaves once MaxTurns is used up
  sink,          \* whether writing to the audit log file can fail
  statement,     \* the SQL text handed to is_write_sql on its own
  verdict,       \* what is_write_sql returned for it
  mcp,           \* src/tools.py: the module's cached MCP state and its callers
  doc,           \* /upload_file: the upload in progress, its effects, the results
  ctx            \* the audit context variables of the request tasks

vars == <<req, audit, executed, lastResponse, shown, checkpointer, checkpoint, llm, sink, statement, verdict, mcp, doc, ctx>>

\* The tool requests the model can write in a turn: those of the pool and,
\* when a statement is proposed to the agent, execute_sql with that statement.
ProposedCalls ==
  CallPool \cup
    (IF verdict = "proposed"
     THEN {[name |-> "execute_sql", args |-> [query |-> statement]]}
     ELSE {})

ModelTurns == TurnShapesOver(ProposedCalls)

NoCall == [id |-> NoId, name |-> None, args |-> <<>>]

IdleReq ==
  [pc |-> "idle", kind |-> None, thread |-> None, route |-> None,
   messages |-> <<>>, turns |-> 0, steps |-> 0, resume |-> NoResume, resume_pending |-> FALSE,
   user_feedback |-> Missing, explanation |-> None,
   policy_test_results |-> None, response |-> None,
   \* history of the run, read by the properties only
   on_suspended |-> FALSE, handled |-> NoCall, blocked |-> NoCall,
   failure |-> None]

NoShown == [calls |-> <<>>, explanation |-> None]

NoCheckpoint == [messages |-> <<>>, next |-> None, policy_test_results |-> None]

\* HR_Agent_GraphBuilder.build_graph returns self.graph.compile(): the
\* graph is compiled without a checkpointer, so a run keeps its state only
\* for the duration of one ainvoke call and nothing is stored per thread.
graph_checkpointer == None

InitWith(cp, model, log) ==
  /\ req = [r \in Req |-> IdleReq]
  /\ audit = <<>>
  /\ executed = <<>>
  /\ lastResponse = [t \in Threads |-> None]
  /\ shown = [t \in Threads |-> NoShown]
  /\ checkpointer = cp
  /\ checkpoint = [t \in Threads |-> NoCheckpoint]
  /\ llm = model
  /\ sink = log
  /\ statement = SqlEmpty
  /\ verdict = "pending"
  /\ mcp = McpIdle
  /\ doc = DocIdle
  /\ ctx = CtxIdle

Init == InitWith(graph_checkpointer, "bounded", "reliable")

\* audit_event(event_type, data): one record appended to the sink, tagged
\* with the request's context variables.
\* AUDIT_STORE_FULL_QUERY is not set: the default.
STORE_FULL_QUERY == FALSE

\* A free-text field of an audit record: absent, the text itself, or the
\* SHA-256 digest of the text (value then stands for the digest of that text).
NoText == [form |-> "absent", value |-> <<>>]

Verbatim(text) == [form |-> "text", value |-> text]

hash_text(text) == [form |-> "sha256", value |-> text]

\* _prepare_sql_data
prepare_sql_data(sql_query) ==
  IF STORE_FULL_QUERY THEN Verbatim(sql_query) ELSE hash_text(sql_query)

\* The events whose helper stores the statement (db_write_proposed in
\* proposed_write, db_read in db); the db_write_executed helpers store the
\* tables and the operation only.
StoresSql == {"db_write_proposed", "db_read"}

AuditRec(r, t, event, id, info, sql, expl) ==
  [event |-> event, request_id |-> r, thread_id |-> t,
   tool_call_id |-> id, info |-> info,
   sql |-> IF event \in StoresSql THEN prepare_sql_data(sql) ELSE NoText,
   explanation |-> expl,
   query |-> NoText, query_hash |-> NoText, user_feedback |-> NoText]

\* audit_request_received: input.query always holds the query; query_hash is
\* added next to it when STORE_FULL_QUERY is off.
audit_request_received(r, t, query) ==
  [AuditRec(r, t, "request_received", NoId, "", SqlEmpty, None) EXCEPT
     !.query = Verbatim(query),
     !.query_hash = IF ~STORE_FULL_QUERY THEN hash_text(query) ELSE NoText]

\* audit_db_write_decision: hitl.user_feedback holds the feedback text.
audit_db_write_decision(r, t, id, approved, user_feedback) ==
  [AuditRec(r, t, "db_write_decision", id,
            IF approved THEN "approve" ELSE "reject", SqlEmpty, None) EXCEPT
     !.user_feedback = Verbatim(user_feedback)]

LastMsg(r) == req[r].messages[Len(req[r].messages)]

\* The requests whose handler is in progress.
Running == {q \in Req : req[q].pc \notin {"idle", "done", "failed"}}

\* Requests are numbered in the order they arrive.
Arrives(r) ==
  /\ req[r].pc = "idle"
  /\ \A q \in Req : q < r => req[q].pc # "idle"
  /\ Cardinality(Running) < MaxRunning

\* With a checkpointer, a run is started on a thread only when no other run
\* of that thread is in progress and the thread's last run did not raise.
ThreadFree(t) ==
  checkpointer # None =>
    /\ checkpoint[t].next # "raised"
    /\ \A q \in Running : req[q].thread # t

\* An exception leaves the graph run and answer_query: the request ends
\* with HTTP 500 and no further audit record.
Raise(r) ==
  /\ req' = [req EXCEPT ![r].pc = "failed", ![r].response = "error",
                        ![r].messages = <<>>]
  /\ lastResponse' = [lastResponse EXCEPT ![req[r].thread] = "error"]
  /\ checkpoint' = IF checkpointer = None THEN checkpoint
                   ELSE [checkpoint EXCEPT ![req[r].thread].next = "raised"]

\* audit_event hands the record to the audit logger, whose handler writes
\* the line and then calls flush() outside the handler's own error handling
\* (FlushingTimedRotatingFileHandler.emit); neither audit_event nor the
\* helpers nor their callers catch the exception. Of the records an operation
\* emits, those before the failing one are written; the operation ends there.
SinkOutcomes == IF sink = "unreliable" THEN BOOLEAN ELSE {TRUE}

EmitFails(r, recs) ==
  /\ sink = "unreliable"
  /\ recs # <<>>
  /\ \E n \in 0..(Len(recs) - 1) : audit' = audit \o SubSeq(recs, 1, n)
  /\ req' = [req EXCEPT ![r].pc = "failed", ![r].response = "error",
                        ![r].messages = <<>>, ![r].failure = "audit"]
  /\ lastResponse' = [lastResponse EXCEPT ![req[r].thread] = "error"]
  /\ checkpoint' = IF checkpointer = None THEN checkpoint
                   ELSE [checkpoint EXCEPT ![req[r].thread].next = "raised"]
  /\ UNCHANGED <<executed, shown, checkpointer, llm, sink, statement, verdict, mcp, doc, ctx>>

\* ------------------------------------------------------- /query handler
\* answer_query, new-run path: context set, graph.ainvoke(initial state).
\* The input is applied to the state held for the thread, if any: the
\* add_messages reducer appends the new HumanMessage.
answer_query_new(r, t) ==
  /\ Arrives(r)
  /\ Cardinality({q \in Req : req[q].kind = "new"}) < MaxNew
  /\ ThreadFree(t)
  /\ req' = [req EXCEPT ![r] =
       [IdleReq EXCEPT !.pc = "summarize_query", !.kind = "new", !.thread = t,
                       !.on_suspended = (lastResponse[t] = "interrupt"),
                       !.messages = Append(checkpoint[t].messages, HumanMessage),
                       !.policy_test_results = checkpoint[t].policy_test_results]]
  /\ UNCHANGED <<audit, executed, lastResponse, shown, checkpointer, checkpoint, llm, sink, statement, verdict, mcp, doc, ctx>>

\* A resume path that hands the thread's pending tool request to the tool
\* node again on every resume, without marking the thread as advanced.
answer_query_resume_replay(r, t, d) ==
  /\ Arrives(r)
  /\ audit' = Append(audit,
       AuditRec(r, t, "hitl_resume_received", NoId, d.shape, SqlEmpty, None))
  /\ IF shown[t].calls = <<>>
     THEN /\ req' = [req EXCEPT ![r] =
               [IdleReq EXCEPT !.pc = "failed", !.kind = "resume", !.thread = t,
                               !.resume = d, !.response = "error",
                               !.on_suspended = (lastResponse[t] = "interrupt")]]
          /\ lastResponse' = [lastResponse EXCEPT ![t] = "error"]
     ELSE /\ req' = [req EXCEPT ![r] =
               [IdleReq EXCEPT !.pc = "tools_hr", !.kind = "resume", !.thread = t,
                               !.resume = d,
                               !.on_suspended = (lastResponse[t] = "interrupt"),
                               !.messages = <<HumanMessage, AIMessage(shown[t].calls)>>]]
          /\ UNCHANGED lastResponse
  /\ UNCHANGED <<executed, shown, checkpointer, checkpoint, llm, sink, statement, verdict, mcp, doc, ctx>>

\* answer_query, resume path: audit_hitl_resume_received, then
\* graph.ainvoke(Command(resume=...)). Without a checkpointer the run raises
\* ("Cannot use Command(resume=...) without checkpointer") before any node
\* executes. With a checkpointer the run continues the suspended thread by
\* executing the interrupted node hitl_approval again.
answer_query_resume(r, t, d) ==
  /\ Arrives(r)
  /\ \E emitted \in SinkOutcomes :
     /\ audit' = IF emitted
                 THEN Append(audit, AuditRec(r, t, "hitl_resume_received", NoId,
                                             d.shape, SqlEmpty, None))
                 ELSE audit
     /\ IF checkpointer = None \/ ~emitted
        THEN /\ req' = [req EXCEPT ![r] =
                  [IdleReq EXCEPT !.pc = "failed", !.kind = "resume", !.thread = t,
                                  !.resume = d, !.response = "error",
                                  !.on_suspended = (lastResponse[t] = "interrupt"),
                                  !.failure = IF emitted \/ checkpointer = None
                                              THEN None ELSE "audit"]]
             /\ lastResponse' = [lastResponse EXCEPT ![t] = "error"]
        ELSE /\ ThreadFree(t)
             /\ checkpoint[t].next = "hitl_approval"
             /\ Cardinality({q \in Req : req[q].kind = "resume"}) < MaxResumed
             /\ req' = [req EXCEPT ![r] =
                  [IdleReq EXCEPT !.pc = "hitl_approval", !.kind = "resume",
                                  !.thread = t, !.resume = d, !.resume_pending = TRUE,
                                  !.on_suspended = (lastResponse[t] = "interrupt"),
                                  !.messages = checkpoint[t].messages,
                                  !.policy_test_results = checkpoint[t].policy_test_results]]
             /\ UNCHANGED lastResponse
  /\ UNCHANGED <<executed, shown, checkpointer, checkpoint, llm, sink, statement, verdict, mcp, doc, ctx>>

\* ------------------------------------------------------------ the graph
\* graph.ainvoke is called with config = {"configurable": {"thread_id": ...}}
\* only: the run has the graph runtime's default recursion limit, counted in
\* executed nodes.
recursion_limit == 25

OutOfSteps(r) == req[r].steps >= recursion_limit

Routes == {"policy_studio", "onboarding", "agent_query"}

\* HR_Node.route_input
route_input(route) ==
  IF route = "policy_studio" THEN "policy_studio"
  ELSE IF route = "onboarding" THEN "onboarding"
  ELSE "process_query"

\* The path map of the conditional edge after summarize_query.
RoutePathMap == {"policy_studio", "process_query"}

\* summarize_query_topic followed by the conditional edge route_input. A
\* branch result outside the path map is an error of the graph run.
summarize_query(r) ==
  /\ req[r].pc = "summarize_query"
  /\ ~OutOfSteps(r)
  /\ \E route \in Routes :
       IF route_input(route) \in RoutePathMap
       THEN /\ req' = [req EXCEPT ![r].steps = @ + 1, ![r].route = route, ![r].pc = route_input(route)]
            /\ UNCHANGED <<lastResponse, checkpoint>>
       ELSE \* the branch result has no entry in the path map: the run raises
            /\ req' = [req EXCEPT ![r].steps = @ + 1, ![r].route = route,
                                  ![r].pc = "failed", ![r].response = "error",
                                  ![r].messages = <<>>]
            /\ lastResponse' = [lastResponse EXCEPT ![req[r].thread] = "error"]
            /\ checkpoint' = IF checkpointer = None THEN checkpoint
                             ELSE [checkpoint EXCEPT ![req[r].thread].next = "raised"]
  /\ UNCHANGED <<audit, executed, shown, checkpointer, llm, sink, statement, verdict, mcp, doc, ctx>>

\* A model that does not stop: it asks for the same read again and again.
LoopTurn ==
  <<[name |-> "execute_sql", args |-> [query |-> SqlSelect]]>>

\* The model answers with text or with tool requests; the number of
\* tool-requesting turns of one request is bounded by MaxTurns.
ModelTurn(r, shape) ==
  /\ shape \in ModelTurns
  /\ \/ req[r].turns < MaxTurns
     \/ /\ llm = "bounded"
        /\ shape = <<>>
     \/ /\ llm = "looping"
        /\ req[r].turns = MaxTurns
        /\ shape = <<>>
     \/ /\ llm = "looping"
        /\ shape = LoopTurn

\* HR_Node.process_query: the model is called on the messages, its
\* response is appended.
process_query(r) ==
  /\ req[r].pc = "process_query"
  /\ ~OutOfSteps(r)
  /\ \E shape \in ModelTurns :
       /\ ModelTurn(r, shape)
       /\ req' = [req EXCEPT ![r].steps = @ + 1,
            ![r].messages = Append(@, AIMessage(MkCalls(r, req[r].turns + 1, shape))),
            ![r].turns = IF shape = <<>> THEN @ ELSE @ + 1,
            ![r].pc = "check_if_write_operation"]
  /\ UNCHANGED <<audit, executed, lastResponse, shown, checkpointer, checkpoint, llm, sink, statement, verdict, mcp, doc, ctx>>

\* --------------------------------------------------------- the write gate
IsWriteCall(c) == c.name = "execute_sql" /\ is_write_sql(ArgQuery(c.args))

\* Position of the first tool call the gate's loop classifies as a write,
\* 0 when the loop runs to its end.
FirstWrite(calls) ==
  LET W == {i \in 1..Len(calls) : IsWriteCall(calls[i])} IN
  IF W = {} THEN 0 ELSE CHOOSE i \in W : \A j \in W : i <= j

\* The routing decision without the write classification: every turn with
\* tool calls goes to tools_hr.
check_route_ungated(msgs) ==
  IF msgs = <<>> THEN "END"
  ELSE LET last == msgs[Len(msgs)] IN
       IF last.type # "ai" THEN "END"
       ELSE IF extract_tool_calls(last) = <<>> THEN "END"
       ELSE "tools_hr"

\* The tool request the gate classified as a write.
PendingWrite(calls) ==
  LET c == calls[FirstWrite(calls)] IN [id |-> c.id, name |-> c.name, args |-> c.args]

\* HR_Node.check_if_write_operation: the routing decision.
check_route(msgs) ==
  IF msgs = <<>> THEN "END"
  ELSE LET last == msgs[Len(msgs)] IN
       IF last.type = "tool" /\ SignalsRejection(last.content) THEN "END"
       ELSE IF last.type # "ai" THEN "END"
       ELSE IF extract_tool_calls(last) = <<>> THEN "END"
       ELSE IF FirstWrite(last.calls) # 0 THEN "hitl_approval"
       ELSE "tools_hr"

\* The execute_sql reads the gate's loop passes before it returns: each is
\* logged with audit_sql_operation when its query is not empty.
RECURSIVE GateReads(_, _, _, _)
GateReads(r, t, calls, i) ==
  IF i > Len(calls) \/ IsWriteCall(calls[i]) THEN <<>>
  ELSE IF calls[i].name = "execute_sql" /\ ArgQuery(calls[i].args) # SqlEmpty
       THEN <<AuditRec(r, t, "db_read", NoId, "success", ArgQuery(calls[i].args), None)>>
              \o GateReads(r, t, calls, i + 1)
       ELSE GateReads(r, t, calls, i + 1)

\* The conditional edge after process_query.
check_if_write_operation(r) ==
  /\ req[r].pc = "check_if_write_operation"
  /\ \/ EmitFails(r, GateReads(r, req[r].thread, LastMsg(r).calls, 1))
     \/ /\ LET route == check_route(req[r].messages) IN
             /\ req' = [req EXCEPT ![r].pc = route]
             /\ audit' = IF route \in {"hitl_approval", "tools_hr"}
                         THEN audit \o GateReads(r, req[r].thread, LastMsg(r).calls, 1)
                         ELSE audit
        /\ UNCHANGED <<executed, lastResponse, shown, checkpointer, checkpoint, llm, sink, statement, verdict, mcp, doc, ctx>>

\* ------------------------------------------------------------ tool nodes
\* Was a db_write_decision with decision approve recorded for this id?
ApprovalRecorded(log, id) ==
  \E i \in 1..Len(log) :
    /\ log[i].event = "db_write_decision"
    /\ log[i].info = "approve"
    /\ log[i].tool_call_id = id

\* One call as the executor receives it; approved_before tells whether the
\* audit sink held an approval for the call's id at that moment.
ExecRec(r, node, id, name, args, log) ==
  [node |-> node, request_id |-> r, tool_call_id |-> id, name |-> name,
   args |-> args, approved_before |-> ApprovalRecorded(log, id)]

\* ToolNode(all_tools, handle_tool_errors=True): every tool call of the last
\* AI message is executed; each gets one ToolMessage with the call's id,
\* whose content is the tool's result or, when the tool raised, the text
\* of the exception.
ToolNodeCalls_first_only(r, node, calls) ==
  [i \in 1..1 |->
     ExecRec(r, node, calls[i].id, calls[i].name, calls[i].args, audit)]

ToolNodeCalls(r, node, calls) ==
  [i \in 1..Len(calls) |->
     ExecRec(r, node, calls[i].id, calls[i].name, calls[i].args, audit)]

\* A ToolNode that answers every call with the id of the first call.
ToolNodeMessages_first_id(calls) ==
  [i \in 1..Len(calls) |-> ToolMessage(calls[1].id, "result")]

ToolNodeMessages(calls) ==
  [i \in 1..Len(calls) |-> ToolMessage(calls[i].id, "result")]

\* node tools_hr and the graph edge tools_hr -> process_query
tools_hr(r) ==
  /\ req[r].pc = "tools_hr"
  /\ ~OutOfSteps(r)
  /\ executed' = executed \o ToolNodeCalls(r, "tools_hr", LastMsg(r).calls)
  /\ req' = [req EXCEPT ![r].steps = @ + 1,
       ![r].messages = @ \o ToolNodeMessages(LastMsg(r).calls),
       ![r].pc = "process_query"]
  /\ UNCHANGED <<audit, lastResponse, shown, checkpointer, checkpoint, llm, sink, statement, verdict, mcp, doc, ctx>>

\* node tools_policy_studio and the graph edge tools_policy_studio -> policy_studio
tools_policy_studio(r) ==
  /\ req[r].pc = "tools_policy_studio"
  /\ ~OutOfSteps(r)
  /\ executed' = executed \o ToolNodeCalls(r, "tools_policy_studio", LastMsg(r).calls)
  /\ req' = [req EXCEPT ![r].steps = @ + 1,
       ![r].messages = @ \o ToolNodeMessages(LastMsg(r).calls),
       ![r].pc = "policy_studio"]
  /\ UNCHANGED <<audit, lastResponse, shown, checkpointer, checkpoint, llm, sink, statement, verdict, mcp, doc, ctx>>

\* ------------------------------------------------------- policy studio
\* HR_Node.policy_studio followed by the conditional edge tools_condition:
\* a response with tool calls goes to tools_policy_studio, any other to
\* parse_studio_results.
policy_studio(r) ==
  /\ req[r].pc = "policy_studio"
  /\ ~OutOfSteps(r)
  /\ \/ EmitFails(r, <<AuditRec(r, req[r].thread, "policy_studio_started", NoId, "", SqlEmpty, None)>>)
     \/ /\ \E shape \in ModelTurns :
             /\ ModelTurn(r, shape)
             /\ req' = [req EXCEPT ![r].steps = @ + 1,
                  ![r].messages = Append(@, AIMessage(MkCalls(r, req[r].turns + 1, shape))),
                  ![r].turns = IF shape = <<>> THEN @ ELSE @ + 1,
                  ![r].pc = IF shape = <<>> THEN "parse_studio_results"
                            ELSE "tools_policy_studio"]
        /\ audit' = Append(audit,
             AuditRec(r, req[r].thread, "policy_studio_started", NoId, "", SqlEmpty, None))
        /\ UNCHANGED <<executed, lastResponse, shown, checkpointer, checkpoint, llm, sink, statement, verdict, mcp, doc, ctx>>

\* HR_Node.parse_studio_results: the structured results may be an empty list.
parse_studio_results(r) ==
  /\ req[r].pc = "parse_studio_results"
  /\ ~OutOfSteps(r)
  /\ \/ EmitFails(r, <<AuditRec(r, req[r].thread, "policy_studio_completed", NoId, "", SqlEmpty, None)>>)
     \/ /\ \E res \in {"results", "empty"} :
             req' = [req EXCEPT ![r].steps = @ + 1, ![r].policy_test_results = res, ![r].pc = "END"]
        /\ audit' = Append(audit,
             AuditRec(r, req[r].thread, "policy_studio_completed", NoId, "", SqlEmpty, None))
        /\ UNCHANGED <<executed, lastResponse, shown, checkpointer, checkpoint, llm, sink, statement, verdict, mcp, doc, ctx>>

\* ------------------------------------------------------- approval nodes
\* hitl_approval, lines 357-369: the FIRST execute_sql call of the last
\* message gives the query and the tool_call_id that are logged.
FirstExecuteSql(calls) ==
  LET X == {i \in 1..Len(calls) : calls[i].name = "execute_sql"} IN
  IF X = {} THEN [sql |-> SqlEmpty, id |-> NoId]
  ELSE LET i == CHOOSE k \in X : \A j \in X : k <= j IN
       [sql |-> ArgQuery(calls[i].args), id |-> calls[i].id]

\* HR_Node.hitl_approval: explanation by the model, db_write_proposed, then
\* interrupt(). In the run that proposes the write interrupt() ends the run
\* with the payload {type: db_write_approval, explanation}. In a resumed run
\* the node is executed again from its first line and interrupt() returns the
\* resume value once; decision.get raises when the value is not an object.
hitl_approval(r) ==
  /\ req[r].pc = "hitl_approval"
  /\ ~OutOfSteps(r)
  /\ \/ EmitFails(r, <<AuditRec(r, req[r].thread, "db_write_proposed", NoId, "", SqlEmpty, None)>>)
     \/ /\ LET first == FirstExecuteSql(extract_tool_calls(LastMsg(r))) IN
           \E e \in Explanations :
             /\ audit' = Append(audit,
                  AuditRec(r, req[r].thread, "db_write_proposed", first.id, "", first.sql, e))
             /\ IF ~req[r].resume_pending
                THEN /\ req' = [req EXCEPT ![r].steps = @ + 1, ![r].explanation = e, ![r].pc = "interrupted"]
                     /\ UNCHANGED <<lastResponse, checkpoint>>
                ELSE IF req[r].resume.shape # "dict"
                THEN Raise(r)
                ELSE /\ req' = [req EXCEPT ![r].steps = @ + 1, ![r].explanation = e,
                                           ![r].resume_pending = FALSE,
                                           ![r].user_feedback = req[r].resume.user_feedback,
                                           ![r].pc = "handle_hitl_approval"]
                     /\ UNCHANGED <<lastResponse, checkpoint>>
        /\ UNCHANGED <<executed, shown, checkpointer, llm, sink, statement, verdict, mcp, doc, ctx>>

\* handle_hitl_approval, lines 420-425
Approved(user_feedback) == LowerText(user_feedback) = "approved"

\* handle_hitl_approval, line 439: self.tools[0] is execute_sql (app.py
\* sorts the tools by name) and it is invoked with {"query": sql_query}.
HitlExecutorCall(r, tc, log) ==
  ExecRec(r, "handle_hitl_approval", tc.id, "execute_sql",
          [query |-> ArgQuery(tc.args)], log)

\* HR_Node.handle_hitl_approval: the first tool call of the last message is
\* taken as the pending write; the decision is logged; the query is executed
\* or blocked; one ToolMessage with the first call's id is appended.
handle_hitl_approval(r) ==
  /\ req[r].pc = "handle_hitl_approval"
  /\ ~OutOfSteps(r)
  /\ LET t == req[r].thread
         tc == extract_tool_call(LastMsg(r))
         sql_query == ArgQuery(tc.args)
         fb == req[r].user_feedback
         decision == audit_db_write_decision(r, t, tc.id, Approved(fb), fb)
         executed_rec(status) ==
           AuditRec(r, t, "db_write_executed", tc.id, status, sql_query, None)
         raised(cause) ==
           /\ req' = [req EXCEPT ![r].pc = "failed", ![r].response = "error",
                                 ![r].messages = <<>>, ![r].handled = tc,
                                 ![r].failure = cause]
           /\ lastResponse' = [lastResponse EXCEPT ![t] = "error"]
           /\ checkpoint' = [checkpoint EXCEPT ![t].next = "raised"]
         returns(content) ==
           /\ req' = [req EXCEPT ![r].steps = @ + 1,
                ![r].messages = Append(@, ToolMessage(tc.id, content)),
                ![r].handled = tc,
                ![r].blocked = IF Approved(fb) THEN @ ELSE PendingWrite(LastMsg(r).calls),
                ![r].pc = "process_query"]
           /\ UNCHANGED <<lastResponse, checkpoint>> IN
     IF fb = Missing
     THEN \* user_feedback is None: None.lower() raises AttributeError
          /\ raised(None)
          /\ UNCHANGED <<audit, executed>>
     ELSE \E emitted \in SinkOutcomes :
       IF ~emitted
       THEN \* the decision record is not written: raised before the executor
            /\ raised("audit")
            /\ UNCHANGED <<audit, executed>>
       ELSE IF Approved(fb)
       THEN \E outcome \in {"success", "error"}, first \in SinkOutcomes,
               second \in SinkOutcomes :
            /\ executed' = Append(executed,
                 HitlExecutorCall(r, tc, Append(audit, decision)))
            /\ IF first
               THEN \* the record after the executor's call is written
                    /\ audit' = audit \o <<decision, executed_rec(outcome)>>
                    /\ returns(IF outcome = "success" THEN "result" ELSE "error")
                    /\ second
               ELSE IF outcome = "success" /\ second
               THEN \* the success record fails inside the try block: the
                    \* except branch reports the executed write as an error
                    /\ audit' = audit \o <<decision, executed_rec("error")>>
                    /\ req' = [req EXCEPT ![r].steps = @ + 1,
                         ![r].messages = Append(@, ToolMessage(tc.id, "error")),
                         ![r].handled = tc, ![r].failure = "audit",
                         ![r].pc = "process_query"]
                    /\ UNCHANGED <<lastResponse, checkpoint>>
               ELSE \* the error record fails in the except branch
                    /\ audit' = Append(audit, decision)
                    /\ raised("audit")
       ELSE \E blocked \in SinkOutcomes :
            /\ UNCHANGED executed
            /\ IF blocked
               THEN /\ audit' = audit \o <<decision, executed_rec("skipped")>>
                    /\ returns(REJECTION)
               ELSE /\ audit' = Append(audit, decision)
                    /\ raised("audit")
  /\ UNCHANGED <<shown, checkpointer, llm, sink, statement, verdict, mcp, doc, ctx>>

\* The run needs another node after recursion_limit nodes were executed: the
\* graph runtime raises GraphRecursionError out of graph.ainvoke; answer_query
\* has no handler for it.
GraphNodes ==
  {"summarize_query", "process_query", "tools_hr", "policy_studio",
   "tools_policy_studio", "parse_studio_results", "hitl_approval",
   "handle_hitl_approval"}

graph_recursion_error(r) ==
  /\ req[r].pc \in GraphNodes
  /\ OutOfSteps(r)
  /\ Raise(r)
  /\ UNCHANGED <<audit, executed, shown, checkpointer, llm, sink, statement, verdict, mcp, doc, ctx>>

\* ------------------------------------------------ /query handler, return
\* answer_query after graph.ainvoke returned (lines 235-317).
ResponseType(r) ==
  IF req[r].policy_test_results = "results" THEN "policy_test_results"
  ELSE IF req[r].pc = "interrupted" THEN "interrupt"
  ELSE "final"

answer_query_return(r) ==
  /\ req[r].pc \in {"END", "interrupted"}
  /\ \/ EmitFails(r, <<audit_request_received(r, req[r].thread, HumanMessage.content),
                         AuditRec(r, req[r].thread, "response_sent", NoId,
                                  ResponseType(r), SqlEmpty, None)>>)
     \/ /\ LET t == req[r].thread
               ty == ResponseType(r) IN
             /\ audit' = audit \o
                  <<audit_request_received(r, t, HumanMessage.content),
                    AuditRec(r, t, "response_sent", NoId, ty, SqlEmpty, None)>>
             /\ lastResponse' = [lastResponse EXCEPT ![t] = ty]
             /\ shown' = IF ty = "interrupt"
                         THEN [shown EXCEPT ![t] =
                                [calls |-> LastMsg(r).calls, explanation |-> req[r].explanation]]
                         ELSE shown
             /\ checkpoint' =
                  IF checkpointer = None THEN checkpoint
                  ELSE [checkpoint EXCEPT ![t] =
                         [messages |-> req[r].messages,
                          next |-> IF req[r].pc = "interrupted" THEN "hitl_approval" ELSE None,
                          policy_test_results |-> req[r].policy_test_results]]
             /\ req' = [req EXCEPT ![r].pc = "done", ![r].response = ty,
                                   ![r].messages = <<>>]
        /\ UNCHANGED <<executed, checkpointer, llm, sink, statement, verdict, mcp, doc, ctx>>

\* ------------------------------------------------------- specification
\* The service as it is built: the graph has no checkpointer, so no run is
\* ever resumed and handle_hitl_approval is never entered.
\* ------------------------------------------------------ MCP tools module
GraphVars ==
  <<req, audit, executed, lastResponse, shown, checkpointer, checkpoint, llm,
    sink, statement, verdict>>

McpCanCall(c) ==
  /\ mcp.task[c].pc \in {"idle", "returned", "raised"}
  /\ mcp.calls < MaxMcpCalls

\* what the caller's function returns once init_mcp has returned
McpReturn(op, m) ==
  IF op = "get_mcp_tools" THEN m.tools
  ELSE IF op = "get_mcp_tool_node" THEN m.tool_node
  ELSE NoRef

McpReturned(m, c, op) ==
  [m EXCEPT !.task[c] = [op |-> op, pc |-> "returned", result |-> McpReturn(op, m),
                         epoch |-> m.shutdowns]]

\* get_mcp_tools: `if _tools is None: await init_mcp()`, then `return _tools`
get_mcp_tools(c) ==
  /\ McpCanCall(c)
  /\ LET m == [mcp EXCEPT !.calls = @ + 1] IN
     mcp' = IF mcp.tools = NoRef
            THEN [m EXCEPT !.task[c] = [NoTask EXCEPT !.op = "get_mcp_tools", !.pc = "init_mcp"]]
            ELSE McpReturned(m, c, "get_mcp_tools")
  /\ UNCHANGED <<GraphVars, doc, ctx>>

\* get_mcp_tool_node: `if _tool_node is None: await init_mcp()`
get_mcp_tool_node(c) ==
  /\ McpCanCall(c)
  /\ LET m == [mcp EXCEPT !.calls = @ + 1] IN
     mcp' = IF mcp.tool_node = NoRef
            THEN [m EXCEPT !.task[c] = [NoTask EXCEPT !.op = "get_mcp_tool_node", !.pc = "init_mcp"]]
            ELSE McpReturned(m, c, "get_mcp_tool_node")
  /\ UNCHANGED <<GraphVars, doc, ctx>>

\* a direct call of init_mcp (application startup)
init_mcp(c) ==
  /\ McpCanCall(c)
  /\ mcp' = [mcp EXCEPT !.calls = @ + 1,
                        !.task[c] = [NoTask EXCEPT !.op = "init_mcp", !.pc = "init_mcp"]]
  /\ UNCHANGED <<GraphVars, doc, ctx>>

\* init_mcp from `async with _init_lock` to `await _session_cm.__aenter__()`
init_mcp_locked(c) ==
  /\ mcp.task[c].pc = "init_mcp"
  /\ mcp.lock = None
  /\ mcp' = IF mcp.tool_node # NoRef
            THEN McpReturned(mcp, c, mcp.task[c].op)
            ELSE [mcp EXCEPT !.lock = c, !.shut = FALSE,
                             !.client = mcp.entered + 1,
                             !.session_cm = mcp.entered + 1,
                             !.task[c].pc = "__aenter__"]
  /\ UNCHANGED <<GraphVars, doc, ctx>>

\* the session is entered; next await is load_mcp_tools(_session)
init_mcp_session(c) ==
  /\ mcp.task[c].pc = "__aenter__"
  /\ mcp' = [mcp EXCEPT !.session = mcp.session_cm,
                        !.open = @ \cup {mcp.session_cm},
                        !.entered = @ + 1,
                        !.since_shutdown = @ + 1,
                        !.task[c].pc = "load_mcp_tools"]
  /\ UNCHANGED <<GraphVars, doc, ctx>>

\* load_mcp_tools returns the tools, or raises; either way the lock is released
init_mcp_tools(c) ==
  /\ mcp.task[c].pc = "load_mcp_tools"
  /\ \E loaded \in BOOLEAN :
       mcp' = IF loaded
              THEN McpReturned([mcp EXCEPT !.tools = mcp.session,
                                           !.tool_node = mcp.session,
                                           !.lock = None], c, mcp.task[c].op)
              ELSE [mcp EXCEPT !.lock = None, !.failed = @ + 1,
                               !.task[c].pc = "raised"]
  /\ UNCHANGED <<GraphVars, doc, ctx>>

\* shutdown_mcp is called
shutdown_mcp(c) ==
  /\ McpCanCall(c)
  /\ mcp' = [mcp EXCEPT !.calls = @ + 1,
                        !.task[c] = [NoTask EXCEPT !.op = "shutdown_mcp", !.pc = "shutdown_mcp"]]
  /\ UNCHANGED <<GraphVars, doc, ctx>>

McpCleared(m, c) ==
  [m EXCEPT !.tool_node = NoRef, !.tools = NoRef, !.client = NoRef,
            !.lock = None, !.since_shutdown = 0, !.shutdowns = @ + 1,
            !.shut = TRUE,
            !.task[c] = [op |-> "shutdown_mcp", pc |-> "returned", result |-> NoRef,
                         epoch |-> m.shutdowns + 1]]

\* shutdown_mcp from `async with _init_lock` to `await _session_cm.__aexit__()`
shutdown_mcp_locked(c) ==
  /\ mcp.task[c].pc = "shutdown_mcp"
  /\ mcp.lock = None
  /\ mcp' = IF mcp.session_cm # NoRef
            THEN [mcp EXCEPT !.lock = c, !.task[c].pc = "__aexit__"]
            ELSE McpCleared(mcp, c)
  /\ UNCHANGED <<GraphVars, doc, ctx>>

\* the session is exited and the cached references are dropped
shutdown_mcp_exit(c) ==
  /\ mcp.task[c].pc = "__aexit__"
  /\ mcp' = McpCleared([mcp EXCEPT !.open = @ \ {mcp.session_cm},
                                   !.session_cm = NoRef,
                                   !.session = NoRef], c)
  /\ UNCHANGED <<GraphVars, doc, ctx>>

\* ------------------------------------------------------- document upload
DocStep(step, ok, next) ==
  doc' = [doc EXCEPT !.effects = Append(@, [upload |-> doc.n, step |-> step, ok |-> ok]),
                     !.pc = next]

DocReturn(step, ok, status_code) ==
  doc' = [doc EXCEPT !.effects = Append(@, [upload |-> doc.n, step |-> step, ok |-> ok]),
                     !.pc = "idle",
                     !.status = Append(@, status_code)]

\* POST /upload_file calls process_document_upload
upload_file ==
  /\ doc.pc = "idle"
  /\ doc.n < MaxUploads
  /\ doc' = [doc EXCEPT !.n = @ + 1, !.pc = "read_file"]
  /\ UNCHANGED <<GraphVars, mcp, ctx>>

\* Step 1; an exception is caught by the outer except: status 500
read_file ==
  /\ doc.pc = "read_file"
  /\ \/ DocStep("read_file", TRUE, "get_employee_uuid")
     \/ DocReturn("read_file", FALSE, 500)
  /\ UNCHANGED <<GraphVars, mcp, ctx>>

\* `if error: return {... "status_code": 404 ...}`
after_get_employee_uuid_unchecked(outcome) == "upload_to_storage"

after_get_employee_uuid(outcome) ==
  IF outcome = "found" THEN "upload_to_storage" ELSE "return"

\* Step 2: (uuid, None), or (None, error) when not found or the query failed
get_employee_uuid ==
  /\ doc.pc = "get_employee_uuid"
  /\ \E outcome \in {"found", "not found", "query failed"} :
       IF after_get_employee_uuid(outcome) = "return"
       THEN DocReturn("get_employee_uuid", outcome = "found", 404)
       ELSE DocStep("get_employee_uuid", outcome = "found",
                    after_get_employee_uuid(outcome))
  /\ UNCHANGED <<GraphVars, mcp, ctx>>

\* Step 3: (path, None), or (None, error): status 500
upload_to_storage ==
  /\ doc.pc = "upload_to_storage"
  /\ \/ DocStep("upload_to_storage", TRUE, "generate_summary")
     \/ DocReturn("upload_to_storage", FALSE, 500)
  /\ UNCHANGED <<GraphVars, mcp, ctx>>

\* Step 4; an exception is caught by the outer except: status 500
generate_summary ==
  /\ doc.pc = "generate_summary"
  /\ \/ DocStep("generate_summary", TRUE, "insert_into_table")
     \/ DocReturn("generate_summary", FALSE, 500)
  /\ UNCHANGED <<GraphVars, mcp, ctx>>

\* the status for an insert error, by the words of its message
InsertStatus(error) ==
  IF error \in {"not found", "does not exist"} THEN 404
  ELSE IF error \in {"validation", "invalid", "constraint"} THEN 400
  ELSE 500

\* Step 5
insert_into_table ==
  /\ doc.pc = "insert_into_table"
  /\ \/ DocReturn("insert_into_table", TRUE, 200)
     \/ \E error \in {"not found", "constraint", "timeout"} :
          DocReturn("insert_into_table", FALSE, InsertStatus(error))
  /\ UNCHANGED <<GraphVars, mcp, ctx>>

\* ------------------------------------------------- audit context variables
\* new_request_id() is a fresh id for every request
new_request_id(k) == k

\* request_id_var.set(...), thread_id_var.set(employee_id), actor_var.set(...)
_set_audit_context(k, employee_id) ==
  /\ ctx.pc[k] = "idle"
  /\ LET c == [request_id |-> new_request_id(k), thread_id |-> employee_id,
               actor |-> employee_id] IN
     ctx' = [ctx EXCEPT !.var[k] = c, !.last = c, !.pc[k] = "handling",
                        !.employee[k] = employee_id]
  /\ UNCHANGED <<GraphVars, mcp, doc>>

\* request_id_var.get() and the like, in task k
context_get_shared(k) == ctx.last

context_get(k) == ctx.var[k]

\* audit_event called in task k, or in a node the task's graph run executes:
\* ids not passed explicitly default to the context variables
audit_event(k) ==
  /\ ctx.pc[k] = "handling"
  /\ ctx.emitted[k] < MaxEvents
  /\ ctx' = [ctx EXCEPT !.emitted[k] = @ + 1,
                        !.log = Append(@, [emitter |-> k,
                                           request_id |-> context_get(k).request_id,
                                           thread_id |-> context_get(k).thread_id,
                                           actor |-> context_get(k).actor])]
  /\ UNCHANGED <<GraphVars, mcp, doc>>

\* the handler returns its response
answer_query_done(k) ==
  /\ ctx.pc[k] = "handling"
  /\ ctx' = [ctx EXCEPT !.pc[k] = "done"]
  /\ UNCHANGED <<GraphVars, mcp, doc>>

Next ==
  \E r \in Req :
    \/ \E t \in Threads : answer_query_new(r, t)
    \/ \E t \in Threads : \E d \in ResumePool : answer_query_resume(r, t, d)
    \/ summarize_query(r)
    \/ process_query(r)
    \/ check_if_write_operation(r)
    \/ tools_hr(r)
    \/ hitl_approval(r)
    \/ policy_studio(r)
    \/ tools_policy_studio(r)
    \/ parse_studio_results(r)
    \/ answer_query_return(r)

Spec == Init /\ [][Next]_vars

\* The same nodes driven by a graph runtime that holds the suspended state
\* per thread (compile(checkpointer=MemorySaver()), as the builders under
\* src/agents do): the resumed run reaches handle_hitl_approval.
InitCheckpointed == InitWith("MemorySaver", "bounded", "reliable")

NextCheckpointed ==
  \/ Next
  \/ \E r \in Req : handle_hitl_approval(r)

SpecCheckpointed == InitCheckpointed /\ [][NextCheckpointed]_vars

\* The service as it is built, with a model that keeps requesting a read
\* after MaxTurns turns: the run reaches the recursion limit.
InitLoop == InitWith(graph_checkpointer, "looping", "reliable")

NextLoop ==
  \/ Next
  \/ \E r \in Req : graph_recursion_error(r)

SpecLoop == InitLoop /\ [][NextLoop]_vars

\* The service as it is built, observed from the moment an earlier request
\* (numbered 0) on thread E1 was answered with the approval interrupt for
\* one tool request execute_sql INSERT.
SuspendedTurn ==
  MkCalls(0, 1, <<[name |-> "execute_sql", args |-> [query |-> SqlInsert]]>>)

InitSuspended ==
  /\ req = [r \in Req |-> IdleReq]
  /\ \E e \in Explanations :
       /\ audit =
            <<AuditRec(0, "E1", "db_write_proposed", SuspendedTurn[1].id, "", SqlInsert, e),
              audit_request_received(0, "E1", HumanMessage.content),
              AuditRec(0, "E1", "response_sent", NoId, "interrupt", SqlEmpty, None)>>
       /\ shown = [t \in Threads |->
            IF t = "E1" THEN [calls |-> SuspendedTurn, explanation |-> e] ELSE NoShown]
  /\ executed = <<>>
  /\ lastResponse = [t \in Threads |-> IF t = "E1" THEN "interrupt" ELSE None]
  /\ checkpointer = graph_checkpointer
  /\ checkpoint = [t \in Threads |-> NoCheckpoint]
  /\ llm = "bounded"
  /\ sink = "reliable"
  /\ statement = SqlEmpty
  /\ verdict = "pending"
  /\ mcp = McpIdle
  /\ doc = DocIdle
  /\ ctx = CtxIdle

SpecSuspended == InitSuspended /\ [][Next]_vars

\* The shipped program with an audit log whose writes can fail (full disk,
\* revoked permission, rotation error).
InitSink == InitWith(graph_checkpointer, "bounded", "unreliable")

SpecSink == InitSink /\ [][Next]_vars

\* is_write_sql on its own: one statement in, one verdict out.
classify_sql ==
  /\ verdict = "pending"
  /\ verdict' = IF is_write_sql(statement) THEN "write" ELSE "read"
  /\ UNCHANGED <<req, audit, executed, lastResponse, shown, checkpointer,
                 checkpoint, llm, sink, statement, mcp, doc, ctx>>

InitSql ==
  /\ req = [r \in Req |-> IdleReq]
  /\ audit = <<>>
  /\ executed = <<>>
  /\ lastResponse = [t \in Threads |-> None]
  /\ shown = [t \in Threads |-> NoShown]
  /\ checkpointer = graph_checkpointer
  /\ checkpoint = [t \in Threads |-> NoCheckpoint]
  /\ llm = "bounded"
  /\ sink = "reliable"
  /\ statement \in SqlInputs
  /\ verdict = "pending"
  /\ mcp = McpIdle
  /\ doc = DocIdle
  /\ ctx = CtxIdle

NextSql == classify_sql

SpecSql == InitSql /\ [][NextSql]_vars

\* The shipped program with a model that can also propose one statement
\* outside the classifier's lists.
InitUnrecognised ==
  /\ req = [r \in Req |-> IdleReq]
  /\ audit = <<>>
  /\ executed = <<>>
  /\ lastResponse = [t \in Threads |-> None]
  /\ shown = [t \in Threads |-> NoShown]
  /\ checkpointer = graph_checkpointer
  /\ checkpoint = [t \in Threads |-> NoCheckpoint]
  /\ llm = "bounded"
  /\ sink = "reliable"
  /\ statement \in UnrecognisedStatements
  /\ verdict = "proposed"
  /\ mcp = McpIdle
  /\ doc = DocIdle
  /\ ctx = CtxIdle

SpecUnrecognised == InitUnrecognised /\ [][Next]_vars

\* The MCP tools module on its own: tasks of one event loop call it.
InitMcp == InitWith(graph_checkpointer, "bounded", "reliable")

NextMcp ==
  \E c \in McpCallers :
    \/ get_mcp_tools(c)
    \/ get_mcp_tool_node(c)
    \/ init_mcp(c)
    \/ init_mcp_locked(c)
    \/ init_mcp_session(c)
    \/ init_mcp_tools(c)
    \/ shutdown_mcp(c)
    \/ shutdown_mcp_locked(c)
    \/ shutdown_mcp_exit(c)

SpecMcp == InitMcp /\ [][NextMcp]_vars

\* The document upload workflow on its own.
InitUpload == InitWith(graph_checkpointer, "bounded", "reliable")

NextUpload ==
  \/ upload_file
  \/ read_file
  \/ get_employee_uuid
  \/ upload_to_storage
  \/ generate_summary
  \/ insert_into_table

SpecUpload == InitUpload /\ [][NextUpload]_vars

\* Request handlers of several threads in progress at the same time.
InitContext == InitWith(graph_checkpointer, "bounded", "reliable")

NextContext ==
  \E k \in CtxTasks :
    \/ \E e \in Threads : _set_audit_context(k, e)
    \/ audit_event(k)
    \/ answer_query_done(k)

SpecContext == InitContext /\ [][NextContext]_vars

\* ------------------------------------------------------------ properties
Finished(r) == req[r].pc \in {"done", "failed"}

\* A resume request that arrived while its thread's last response was the
\* approval interrupt, and whose handler has finished.
ResumeOfSuspended(r) ==
  /\ req[r].kind = "resume"
  /\ req[r].on_suspended
  /\ Finished(r)

CallIds(calls) == {calls[k].id : k \in 1..Len(calls)}

\* C1: in the process_query loop a write-classified execute_sql request is
\* never handed to the executor unless an approval for its tool_call_id was
\* recorded before; read requests are executed directly.
WriteNeedsApproval ==
  \A i \in 1..Len(executed) :
    (/\ executed[i].node \in {"tools_hr", "handle_hitl_approval"}
     /\ IsWriteCall(executed[i]))
      => executed[i].approved_before

\* A turn with a write was held back: the run is suspended on it, a resume
\* was attempted earlier, and the executor received none of the turn's calls.
WriteHeldBack ==
  \E r \in Req :
    /\ req[r].pc = "interrupted"
    /\ FirstWrite(LastMsg(r).calls) # 0
    /\ \A i \in 1..Len(executed) :
         executed[i].tool_call_id \notin CallIds(LastMsg(r).calls)
    /\ \E q \in Req : req[q].kind = "resume"

\* C2: every tool request, from process_query and from policy_studio, passes
\* the write gate before it is executed: no ToolNode receives a
\* write-classified execute_sql request.
NoWriteThroughToolNode ==
  \A i \in 1..Len(executed) :
    IsWriteCall(executed[i])
      => executed[i].node \notin {"tools_hr", "tools_policy_studio"}

MessageLists ==
  {req[r].messages : r \in Req} \cup {checkpoint[t].messages : t \in Threads}

Correlated(m) ==
  \A j \in 1..Len(m) :
    m[j].type = "tool" =>
      /\ Cardinality({p \in (1..(j - 1)) \X (1..MaxCalls) :
            /\ m[p[1]].type = "ai"
            /\ p[2] <= Len(m[p[1]].calls)
            /\ m[p[1]].calls[p[2]].id = m[j].tool_call_id}) = 1
      /\ \A j2 \in 1..Len(m) :
           (j2 # j /\ m[j2].type = "tool") => m[j2].tool_call_id # m[j].tool_call_id

ProposedIdIsTheWrite ==
  \A r \in Req :
    req[r].pc = "interrupted" =>
      \A i \in 1..Len(audit) :
        (audit[i].event = "db_write_proposed" /\ audit[i].request_id = r) =>
          \E k \in 1..Len(LastMsg(r).calls) :
            /\ IsWriteCall(LastMsg(r).calls[k])
            /\ LastMsg(r).calls[k].id = audit[i].tool_call_id

\* C5: when handle_hitl_approval calls the executor, it calls it with the
\* tool name and the complete, unchanged arguments of the pending
\* write-classified request, under that request's tool_call_id.
ExecutorGetsPendingWriteStep ==
  \A r \in Req :
    (req[r].pc = "handle_hitl_approval" /\ Len(executed') > Len(executed)) =>
      LET w == PendingWrite(LastMsg(r).calls)
          x == executed'[Len(executed')] IN
      /\ x.node = "handle_hitl_approval"
      /\ x.tool_call_id = w.id
      /\ x.name = w.name
      /\ x.args = w.args

Affirmative(d) ==
  /\ d.shape = "dict"
  /\ \/ LowerText(d.user_feedback) = "approved"
     \/ d.approved = "true"

HitlCalls(r) ==
  {i \in 1..Len(executed) :
     executed[i].request_id = r /\ executed[i].node = "handle_hitl_approval"}

WriteExecutedEvents(r, infos) ==
  {i \in 1..Len(audit) :
     /\ audit[i].request_id = r
     /\ audit[i].event = "db_write_executed"
     /\ audit[i].info \in infos}

\* C6: a resume of a suspended thread whose feedback is not clearly
\* affirmative ends BLOCKED: db_write_executed with status skipped is
\* recorded for it and the executor is not called.
RejectionBlocks ==
  \A r \in Req :
    (ResumeOfSuspended(r) /\ ~Affirmative(req[r].resume)) =>
      /\ WriteExecutedEvents(r, {"skipped"}) # {}
      /\ HitlCalls(r) = {}

\* C7: a resume of a suspended thread with approved = true calls the
\* executor once, records one db_write_executed event of the execution and
\* is answered without an error.
ApprovedFlagExecutes ==
  \A r \in Req :
    (/\ ResumeOfSuspended(r)
     /\ req[r].resume.shape = "dict"
     /\ req[r].resume.approved = "true") =>
      /\ Cardinality(HitlCalls(r)) = 1
      /\ Cardinality(WriteExecutedEvents(r, {"success", "error"})) = 1
      /\ req[r].response # "error"

ResumeContinues ==
  \A r \in Req :
    ResumeOfSuspended(r) => req[r].handled # NoCall

CapEndsWithAnswer ==
  \A r \in Req :
    (Finished(r) /\ OutOfSteps(r)) => req[r].response # "error"

\* C12: whatever route the classification step yields, the request is next
\* at an existing node, and a route other than policy_studio is handled by
\* process_query; routing does not fail the request.
RoutingFallsBack ==
  \A r \in Req :
    (req[r].kind = "new" /\ req[r].steps = 1) =>
      /\ req[r].pc \in RoutePathMap
      /\ req[r].route # "policy_studio" => req[r].pc = "process_query"

\* C13: in the process_query loop a model turn whose tool requests are all
\* reads is not sent to approval: while it is the last message the run is at
\* the gate or at tools_hr; afterwards every request of the turn was received
\* by the executor from tools_hr and is answered by a ToolMessage with its id,
\* and when those answers are the last messages the run is at process_query.
ReadPassthrough ==
  \A r \in Req :
    LET m == req[r].messages IN
    \A j \in 1..Len(m) :
      (/\ req[r].route = "agent_query"
       /\ m[j].type = "ai"
       /\ m[j].calls # <<>>
       /\ FirstWrite(m[j].calls) = 0) =>
        IF j = Len(m)
        THEN req[r].pc \in {"check_if_write_operation", "tools_hr"}
        ELSE /\ j + Len(m[j].calls) <= Len(m)
             /\ \A k \in 1..Len(m[j].calls) :
                  /\ m[j + k].type = "tool"
                  /\ m[j + k].tool_call_id = m[j].calls[k].id
                  /\ \E i \in 1..Len(executed) :
                       /\ executed[i].node = "tools_hr"
                       /\ executed[i].tool_call_id = m[j].calls[k].id
             /\ j + Len(m[j].calls) = Len(m) => req[r].pc = "process_query"

\* A turn of two reads was executed by tools_hr and the run is back at
\* process_query.
ReadsPassedThrough ==
  \E r \in Req :
    LET m == req[r].messages IN
    /\ req[r].route = "agent_query"
    /\ req[r].pc = "process_query"
    /\ Len(m) >= 4
    /\ m[Len(m)].type = "tool"
    /\ m[Len(m) - 1].type = "tool"
    /\ Len(m[Len(m) - 2].calls) = 2
    /\ FirstWrite(m[Len(m) - 2].calls) = 0

\* C14: when the executor raises during an approved write, handle_hitl_approval
\* appends a ToolMessage with the error text under the tool_call_id of the
\* pending write request, records db_write_executed with status error for
\* that id, and the run goes on to process_query.
ExecutorErrorHandledStep ==
  \A r \in Req :
    (/\ req[r].pc = "handle_hitl_approval"
     /\ Len(executed') > Len(executed)
     /\ audit'[Len(audit')].info = "error") =>
      LET w == PendingWrite(LastMsg(r).calls)
          m == req'[r].messages IN
      /\ req'[r].pc = "process_query"
      /\ m[Len(m)].type = "tool"
      /\ m[Len(m)].content = "error"
      /\ m[Len(m)].tool_call_id = w.id
      /\ audit'[Len(audit')].event = "db_write_executed"
      /\ audit'[Len(audit')].tool_call_id = w.id

Rejecting(d) ==
  /\ d.shape = "dict"
  /\ \/ d.user_feedback = "rejected"
     \/ d.approved = "false"

\* C15: a resume of a suspended thread with a rejection appends the canonical
\* rejection ToolMessage under the id of the pending write request, records
\* db_write_executed as blocked (status skipped) for that id, and makes no
\* executor call.
RejectPath ==
  \A r \in Req :
    (ResumeOfSuspended(r) /\ Rejecting(req[r].resume)) =>
      /\ req[r].blocked # NoCall
      /\ req[r].handled.id = req[r].blocked.id
      /\ \E i \in WriteExecutedEvents(r, {"skipped"}) :
           audit[i].tool_call_id = req[r].blocked.id
      /\ HitlCalls(r) = {}

\* The graph runtime holds, for the thread, a run interrupted in hitl_approval
\* whose last message is a model turn with a write request and no ToolMessage.
HoldsPendingWrite(t) ==
  /\ checkpoint[t].next = "hitl_approval"
  /\ checkpoint[t].messages # <<>>
  /\ LET last == checkpoint[t].messages[Len(checkpoint[t].messages)] IN
       last.type = "ai" /\ FirstWrite(last.calls) # 0

\* C16: a thread holds a pending write if and only if the last response
\* returned for the thread was the pending-approval interrupt.
PendingIffSuspended ==
  \A t \in Threads :
    HoldsPendingWrite(t) <=> lastResponse[t] = "interrupt"

\* C17: a fresh (non-resume) request sent to a thread that is suspended does
\* not get the thread's pending tool request executed, and every write it
\* proposes itself is executed only after an approval was recorded for it.
FreshRequestGated ==
  \A i \in 1..Len(executed) :
    LET r == executed[i].request_id IN
    (req[r].kind = "new" /\ req[r].on_suspended) =>
      /\ executed[i].tool_call_id \notin CallIds(shown[req[r].thread].calls)
      /\ IsWriteCall(executed[i]) => executed[i].approved_before

\* C18: with the store-full-text flag off, no audit record holds the user
\* query, the SQL text or the approver's feedback verbatim.
AuditPrivacy ==
  ~STORE_FULL_QUERY =>
    \A i \in 1..Len(audit) :
      /\ audit[i].query.form # "text"
      /\ audit[i].sql.form # "text"
      /\ audit[i].user_feedback.form # "text"

\* C19: a failure while emitting an audit record never changes the outcome
\* of the operation that emitted it: no request fails because of it and no
\* executed write is reported as an error because of it.
EmissionNeverFails ==
  \A r \in Req : req[r].failure # "audit"

\* A leading read-only WITH prefix ends at the closing parenthesis of its
\* query; what follows it, less leading whitespace, is the statement proper.
RECURSIVE FirstClose(_, _)
FirstClose(s, i) ==
  IF i > Len(s) THEN 0 ELSE IF s[i] = ")" THEN i ELSE FirstClose(s, i + 1)

StripCte(s) ==
  IF s # <<>> /\ Head(s) = "with" /\ FirstClose(s, 1) # 0
  THEN LStrip(SubSeq(s, FirstClose(s, 1) + 1, Len(s)))
  ELSE s

StartsWithMutatingVerb(s) == s # <<>> /\ Head(s) \in WRITE_PREFIXES

\* C20: is_write_sql answers "write" exactly when the statement, trimmed,
\* lower-cased and stripped of a leading read-only WITH prefix, starts with a
\* mutating verb; every other statement is a read.
WriteIffMutatingVerb ==
  verdict # "pending" =>
    (verdict = "write" <=> StartsWithMutatingVerb(StripCte(Normalize(statement))))

\* A statement the classifier cannot recognise: empty, starting with a
\* comment, holding several statements, or starting with an unlisted keyword.
Unrecognised(sql) ==
  LET s == Normalize(sql) IN
  \/ s = <<>>
  \/ Head(s) = "--"
  \/ \E i \in 1..Len(s) : s[i] = ";"
  \/ Head(s) \notin WRITE_PREFIXES \cup {"select", "with"}

\* C21: an execute_sql request whose statement the classifier cannot
\* recognise is never executed by tools_hr without a recorded approval.
UnrecognisedHeldBack ==
  \A i \in 1..Len(executed) :
    (/\ executed[i].node = "tools_hr"
     /\ executed[i].name = "execute_sql"
     /\ Unrecognised(ArgQuery(executed[i].args)))
      => executed[i].approved_before

\* A resume payload without a usable decision: not an object, or an object
\* without a user_feedback entry.
NoUsableDecision(d) == d.shape # "dict" \/ d.user_feedback = Missing

AuditRecords(t, id, event) ==
  {i \in 1..Len(audit) :
     /\ audit[i].event = event
     /\ audit[i].thread_id = t
     /\ audit[i].tool_call_id = id}

\* The explanations returned to callers in interrupt payloads of thread t.
ReturnedExplanations(t) ==
  {req[q].explanation : q \in {x \in Req : /\ req[x].thread = t
                                            /\ req[x].response = "interrupt"}}

RequestAlwaysRecorded ==
  \A r \in Req :
    Finished(r) =>
      \E i \in 1..Len(audit) :
        audit[i].event = "request_received" /\ audit[i].request_id = r

McpGetters == {"get_mcp_tools", "get_mcp_tool_node"}

\* C25: tools are discovered once: no second session is entered unless a
\* shutdown_mcp came in between, and every get_mcp_tools / get_mcp_tool_node
\* call that returned got the cached tools, the same as every other call
\* that returned since the last shutdown_mcp.
ToolsDiscoveredOnce ==
  /\ mcp.since_shutdown <= 1
  /\ \A c \in McpCallers :
       (mcp.task[c].pc = "returned" /\ mcp.task[c].op \in McpGetters) =>
         /\ mcp.task[c].result # NoRef
         /\ \A d \in McpCallers :
              (/\ mcp.task[d].pc = "returned"
               /\ mcp.task[d].op \in McpGetters
               /\ mcp.task[d].epoch = mcp.task[c].epoch) =>
                mcp.task[d].result = mcp.task[c].result

\* C30: once shutdown_mcp has completed, no session entered earlier is still
\* open and the cached client, session, tools and tool node are cleared.
ShutdownClosesAll ==
  mcp.shut =>
    /\ mcp.open = {}
    /\ mcp.client = NoRef /\ mcp.session_cm = NoRef /\ mcp.session = NoRef
    /\ mcp.tools = NoRef /\ mcp.tool_node = NoRef

DocSteps ==
  <<"read_file", "get_employee_uuid", "upload_to_storage", "generate_summary",
    "insert_into_table">>

\* the positions in doc.effects of upload u's call of a step
DocEffects(u, step) ==
  {i \in 1..Len(doc.effects) :
     doc.effects[i].upload = u /\ doc.effects[i].step = step}

DocOk(u, step) == \E i \in DocEffects(u, step) : doc.effects[i].ok

DocFailed(u, step) == \E i \in DocEffects(u, step) : ~doc.effects[i].ok

\* C26: process_document_upload runs its steps in order and a failed step
\* stops it: after a failed employee lookup the status is 404 and neither the
\* storage upload nor the insert ran; after a failed storage upload the status
\* is 500 and the insert did not run; the insert runs only after both.
UploadStepsInOrder ==
  \A u \in 1..doc.n :
    /\ \A j, k \in 1..Len(DocSteps) :
         j < k => \A a \in DocEffects(u, DocSteps[j]), b \in DocEffects(u, DocSteps[k]) :
                    a < b /\ doc.effects[a].ok
    /\ \A k \in 1..Len(DocSteps) : Cardinality(DocEffects(u, DocSteps[k])) <= 1
    /\ DocFailed(u, "get_employee_uuid") =>
         /\ u <= Len(doc.status) /\ doc.status[u] = 404
         /\ DocEffects(u, "upload_to_storage") = {}
         /\ DocEffects(u, "insert_into_table") = {}
    /\ DocFailed(u, "upload_to_storage") =>
         /\ u <= Len(doc.status) /\ doc.status[u] = 500
         /\ DocEffects(u, "insert_into_table") = {}
    /\ DocEffects(u, "insert_into_table") # {} =>
         DocOk(u, "get_employee_uuid") /\ DocOk(u, "upload_to_storage")

\* One upload stopped at the employee lookup, another at the storage upload,
\* each after the file was read.
UploadsStopped ==
  \E u, w \in 1..Len(doc.status) :
    /\ DocFailed(u, "get_employee_uuid") /\ DocOk(u, "read_file")
    /\ DocFailed(w, "upload_to_storage") /\ DocOk(w, "get_employee_uuid")

\* the ToolMessages of m that answer the tool request with this id
Answers(m, id) ==
  {i \in 1..Len(m) : m[i].type = "tool" /\ m[i].tool_call_id = id}

AuditedReadsExecuted ==
  \A r \in Req :
    req[r].pc = "done" =>
      \A i \in 1..Len(audit) :
        (audit[i].event = "db_read" /\ audit[i].request_id = r) =>
          \E j \in 1..Len(executed) :
            /\ executed[j].node = "tools_hr"
            /\ executed[j].request_id = r
            /\ executed[j].name = "execute_sql"
            /\ prepare_sql_data(ArgQuery(executed[j].args)) = audit[i].sql

====
